---- MODULE Spec2Model ----
(***************************************************************************)
(* AutoScore: scoring orchestration engine.                                *)
(*                                                                         *)
(*   - upload_files / _validate_llm_provider_ready / _get_active_config    *)
(*     (app/routes/dashboard.py, app/services/llm_service.py)              *)
(*   - ScoringService._run_scoring and its worker pool                     *)
(*     (app/services/scoring_service.py)                                   *)
(*   - the Gemini key rotator LLMService._get_next_gemini_key and the      *)
(*     retry loop of LLMService._score_with_gemini                         *)
(*     (app/services/llm_service.py)                                       *)
(***************************************************************************)
EXTENDS Integers, Sequences, FiniteSets, TLC

(***************************************************************************)
(* Bounds of the model.                                                    *)
(***************************************************************************)
MaxStudents == 2

MaxKeys == 2

MaxThreads == 2

\* largest app.config MAX_WORKERS of the modelled deployments (pool size)
MaxWorkers == 2

Names == {"a.pdf", "b.pdf"}

VARIABLES
    \* ---- provider configuration (LLMConfig rows and app config) ----
    llm_config,        \* stored configuration: provider, openai key, gemini keys
    app_config,        \* environment configuration: OPENAI_API_KEY, GEMINI_API_KEYS,
                       \* LLM_PROVIDER, MAX_WORKERS
    \* ---- submission ----
    response,          \* HTTP answer of upload_files: "none", "accepted", "rejected"
    submitted_cfg,     \* configuration in force when upload_files ran
    saved_files,       \* list of original filenames handed to the scoring thread
    \* ---- durable records ----
    job,               \* Job row: status, status_message, total_files, processed_files
    job_results,       \* JobResult rows, in creation order
    \* ---- in-memory progress cache ----
    job_progress,      \* snapshot of the job (has, status, current, total)
    \* ---- _run_scoring thread ----
    pc,                \* position of the orchestrator
    futures,           \* state of every unit of work
    outcome,           \* what a finished unit returned or raised
    collected,         \* futures already yielded by as_completed
    cur,               \* future being handled
    processed_count, success_count, error_count,
    results,           \* in-memory result list
    error_msg,         \* text of the exception that escaped
    persist_failed,    \* the handler could not persist the failed status
    infra_failed,      \* some database or file operation of the run has raised
    \* ---- Gemini key rotator ----
    gemini_keys,       \* number of configured keys (len(self._gemini_keys))
    key_cycle,         \* index the cycle yields next
    rate_limited_keys, \* self._rate_limited_keys
    lock,              \* holder of self._lock, 0 when free
    tpc,               \* position of every worker thread in _score_with_gemini
    key_idx,           \* key index held by every worker thread
    last_call,         \* the _get_next_gemini_key call whose caller still holds the lock
    handed,            \* key indices handed out in lock order while no flag was set
    marked,            \* indices whose last flag operation, in lock order, was a marking
    \* ---- score calls of the backend adapters ----
    sc,                \* every worker's score call: attempt, requests, pause, result
    provider_history,  \* what the provider has answered so far
    \* ---- a call of a pure function (normalizer, identity fallback) ----
    args,              \* the arguments of the call
    ret                \* what the call returned or raised

jobvars == <<response, submitted_cfg, saved_files, job, job_results, job_progress,
             pc, futures, outcome, collected, cur, processed_count, success_count,
             error_count, results, error_msg, persist_failed, infra_failed>>

cfgvars == <<llm_config, app_config>>

rotvars == <<gemini_keys, key_cycle, rate_limited_keys, lock, tpc, key_idx,
             last_call, handed, marked>>

callvars == <<sc, provider_history, args, ret>>

vars == <<cfgvars, jobvars, rotvars, callvars>>

(***************************************************************************)
(* Provider configuration: LLMService._get_active_config and               *)
(* _validate_llm_provider_ready.                                           *)
(***************************************************************************)
\* Python's None (an absent LLMConfig row, an unset environment variable)
None == "None"

\* truth value of a Python string or None
Truthy(x) == x # None /\ x # ""

\* Python's `a or b`
Or(a, b) == IF Truthy(a) THEN a ELSE b

\* str.strip() on the key texts of the model
Strip(s) == IF s = " " THEN "" ELSE s

OPENAI_COMPAT_PROVIDERS == {"openai"}

\* values an LLMConfig row of the model can hold
StoredProviders == {None, "gemini", "openai", "bogus"}

StoredKeys == {None, "", " ", "sk-db"}

StoredGeminiJson == {None, "", "[]", "[g-db]", "[ ]", "{bad"}

EnvKeys == {None, "sk-env"}

EnvGeminiKeys == {<<>>, <<"g-env">>}

\* json.loads on the stored gemini_api_keys text: ok is FALSE on JSONDecodeError
json_loads(text) ==
    IF text = "[]" THEN [ok |-> TRUE, value |-> <<>>]
    ELSE IF text = "[g-db]" THEN [ok |-> TRUE, value |-> <<"g-db">>]
    ELSE IF text = "[ ]" THEN [ok |-> TRUE, value |-> <<" ">>]
    ELSE [ok |-> FALSE, value |-> <<>>]

\* resolution of one OpenAI-compatible api key: db_cfg.get(k) or app_config.get(K, '')
ResolveKey(stored, env) == Or(stored, env)

get_active_config(db_cfg, app) ==
    [provider |-> Or(Or(db_cfg.llm_provider, app.LLM_PROVIDER), "gemini"),
     gemini_keys |->
        IF Truthy(db_cfg.gemini_api_keys)
        THEN (IF json_loads(db_cfg.gemini_api_keys).ok
              THEN json_loads(db_cfg.gemini_api_keys).value
              ELSE app.GEMINI_API_KEYS)
        ELSE app.GEMINI_API_KEYS,
     openai_api_key |-> ResolveKey(db_cfg.openai_api_key, app.OPENAI_API_KEY)]

validate_llm_provider_ready(cfg) ==
    IF cfg.provider = "gemini"
    THEN \E i \in 1..Len(cfg.gemini_keys) :
            Truthy(cfg.gemini_keys[i]) /\ Strip(cfg.gemini_keys[i]) # ""
    ELSE IF cfg.provider \notin OPENAI_COMPAT_PROVIDERS
    THEN FALSE
    ELSE Strip(Or(cfg.openai_api_key, "")) # ""

(***************************************************************************)
(* Durable records and the progress cache.                                 *)
(***************************************************************************)
NoMessage == [kind |-> "none", text |-> "", success |-> 0, total |-> 0]

NoJob == [status |-> "none", status_message |-> NoMessage,
          total_files |-> 0, processed_files |-> 0]

NoProgress == [has |-> FALSE, status |-> "none", stage |-> "none",
               error |-> "", current |-> 0, total |-> 0]

\* a snapshot that shows the count of the unit before
update_progress_one_behind(stage, current, total, error) ==
    [has |-> TRUE,
     status |-> IF stage = "completed" THEN "completed"
                ELSE IF stage = "failed" THEN "failed" ELSE "processing",
     stage |-> stage,
     error |-> error,
     current |-> IF current > 0 THEN current - 1 ELSE 0,
     total |-> total]

\* ScoringService._update_progress: the snapshot stored under the job id
update_progress(stage, current, total, error) ==
    [has |-> TRUE,
     status |-> IF stage = "completed" THEN "completed"
                ELSE IF stage = "failed" THEN "failed" ELSE "processing",
     stage |-> stage,
     error |-> error,
     current |-> current,
     total |-> total]

\* the sequences of at most n filenames; the names are interchangeable, so
\* the first upload is called a.pdf
FileLists(n) == {f \in UNION {[1..m -> Names] : m \in 1..n} : f[1] = "a.pdf"}

TotalFiles(files) == Len(files)

\* JobResult.query.filter_by(job_id, filename).first(): 0 when there is none
FirstRow(rows, filename) ==
    IF \E i \in 1..Len(rows) : rows[i].filename = filename
    THEN CHOOSE i \in 1..Len(rows) :
            /\ rows[i].filename = filename
            /\ \A j \in 1..(i - 1) : rows[j].filename # filename
    ELSE 0

\* ScoringService._update_job_result_in_db; db_ok is FALSE when the query or
\* the commit raises (the exception is swallowed and the session rolled back)
update_job_result_in_db(rows, filename, is_error, db_ok) ==
    LET i == FirstRow(rows, filename) IN
    IF db_ok /\ i # 0
    THEN [rows EXCEPT ![i] = [filename |-> filename,
                              status |-> IF is_error THEN "error" ELSE "completed",
                              writes |-> rows[i].writes + 1]]
    ELSE rows

(***************************************************************************)
(* dashboard.upload_files: validation of the provider, creation of the Job *)
(* and JobResult rows, first progress snapshot, start of the thread.       *)
(***************************************************************************)
upload_files(files) ==
    /\ response = "none"
    /\ LET cfg == get_active_config(llm_config, app_config) IN
       /\ submitted_cfg' = [stored |-> llm_config.openai_api_key,
                            env |-> app_config.OPENAI_API_KEY,
                            provider |-> cfg.provider,
                            gemini_keys |-> cfg.gemini_keys]
       /\ IF ~validate_llm_provider_ready(cfg)
          THEN /\ response' = "rejected"
               /\ UNCHANGED <<saved_files, job, job_results, job_progress, pc>>
          ELSE /\ response' = "accepted"
               /\ saved_files' = files
               /\ job' = [status |-> "pending", status_message |-> NoMessage,
                          total_files |-> TotalFiles(files), processed_files |-> 0]
               /\ job_results' = [i \in 1..Len(files) |->
                                    [filename |-> files[i], status |-> "pending",
                                     writes |-> 0]]
               /\ job_progress' = [NoProgress EXCEPT !.has = TRUE,
                                                     !.status = "pending",
                                                     !.total = Len(files)]
               /\ pc' = "start"
    /\ UNCHANGED <<futures, outcome, collected, cur, processed_count, success_count,
                   error_count, results, error_msg, persist_failed, infra_failed>>
    /\ UNCHANGED <<cfgvars, rotvars, callvars>>

(***************************************************************************)
(* ScoringService._run_scoring.  A commit, the report file and the system  *)
(* log can raise; `ok` is the outcome of that call.                        *)
(***************************************************************************)
total_files == Len(saved_files)

\* an exception leaves the try block: inside the `with ThreadPoolExecutor`
\* block the executor is shut down (waiting for its units) first
Raise(msg, in_pool) ==
    /\ error_msg' = msg
    /\ pc' = IF in_pool THEN "shutdown" ELSE "handler"

\* lines 144-160: load the job, mark it processing, first snapshot
RunBegin ==
    /\ pc = "start"
    /\ \E ok \in BOOLEAN :
        /\ infra_failed' = (infra_failed \/ ~ok)
        /\ IF ok
           THEN /\ job' = [job EXCEPT !.status = "processing"]
                /\ job_progress' = update_progress("reading", 0, total_files, "")
                /\ pc' = "submit"
                /\ UNCHANGED error_msg
           ELSE /\ Raise("commit processing failed", FALSE)
                /\ UNCHANGED <<job, job_progress>>
    /\ UNCHANGED <<response, submitted_cfg, saved_files, job_results, futures, outcome,
                   collected, cur, processed_count, success_count, error_count,
                   results, persist_failed>>
    /\ UNCHANGED <<cfgvars, rotvars, callvars>>

\* lines 234-249: one unit of work per entry of saved_files
SubmitAll ==
    /\ pc = "submit"
    /\ futures' = [i \in 1..total_files |-> "queued"]
    /\ outcome' = [i \in 1..total_files |-> "none"]
    /\ pc' = "collect"
    /\ UNCHANGED <<response, submitted_cfg, saved_files, job, job_results,
                   job_progress, collected, cur, processed_count, success_count,
                   error_count, results, error_msg, persist_failed, infra_failed>>
    /\ UNCHANGED <<cfgvars, rotvars, callvars>>

\* self.max_workers = app.config.get('MAX_WORKERS', 4)
max_workers == app_config.MAX_WORKERS

Running == {i \in DOMAIN futures : futures[i] = "running"}

Queued == {i \in DOMAIN futures : futures[i] = "queued"}

\* a pool that starts a thread for every submitted unit
WorkerAlwaysIdle(running, workers) == TRUE

\* ThreadPoolExecutor(max_workers=self.max_workers): a unit is started only
\* while fewer than max_workers units are running
WorkerIdle(running, workers) == running < workers

\* the pool takes the oldest queued unit when a worker is free
WorkerStart(i) ==
    /\ i \in Queued
    /\ \A j \in Queued : i <= j
    /\ WorkerIdle(Cardinality(Running), max_workers)
    /\ futures' = [futures EXCEPT ![i] = "running"]
    /\ UNCHANGED <<response, submitted_cfg, saved_files, job, job_results,
                   job_progress, pc, outcome, collected, cur, processed_count,
                   success_count, error_count, results, error_msg, persist_failed, infra_failed>>
    /\ UNCHANGED <<cfgvars, rotvars, callvars>>

\* _process_single_file ends: a result without error, a result with the
\* error flag (extraction failure, provider error), or an exception
UnitOutcomes == {"ok", "error", "raise"}

WorkerFinish(i, o) ==
    /\ i \in Running
    /\ futures' = [futures EXCEPT ![i] = "done"]
    /\ outcome' = [outcome EXCEPT ![i] = o]
    /\ UNCHANGED <<response, submitted_cfg, saved_files, job, job_results,
                   job_progress, pc, collected, cur, processed_count,
                   success_count, error_count, results, error_msg, persist_failed, infra_failed>>
    /\ UNCHANGED <<cfgvars, rotvars, callvars>>

\* lines 252-262: as_completed yields a finished unit; count it, refresh the snapshot
CollectNext(i) ==
    /\ pc = "collect"
    /\ i \in DOMAIN futures
    /\ futures[i] = "done"
    /\ i \notin collected
    /\ collected' = collected \cup {i}
    /\ cur' = i
    /\ processed_count' = processed_count + 1
    /\ job_progress' = update_progress("scoring_progress", processed_count + 1,
                                       total_files, "")
    /\ pc' = "handle"
    /\ UNCHANGED <<response, submitted_cfg, saved_files, job, job_results, futures,
                   outcome, success_count, error_count, results, error_msg,
                   persist_failed, infra_failed>>
    /\ UNCHANGED <<cfgvars, rotvars, callvars>>

\* mutant: the exception of a unit is not caught inside the loop
ResultOfUncaught(o) == IF o = "raise" THEN "uncaught" ELSE "result"

\* what future.result() does with a unit that raised: "except" is the handler
\* of lines 289-311
ResultOf(o) == IF o = "raise" THEN "except" ELSE "result"

\* lines 264-283: take the result, record it, update the JobResult row
HandleResult ==
    /\ pc = "handle"
    /\ IF ResultOf(outcome[cur]) = "except"
       THEN /\ pc' = "except"
            /\ UNCHANGED <<results, success_count, error_count, job_results, error_msg,
                           infra_failed>>
       ELSE IF ResultOf(outcome[cur]) = "result"
       THEN /\ results' = Append(results, [task |-> cur,
                                           filename |-> saved_files[cur],
                                           error |-> outcome[cur] = "error"])
            /\ success_count' = success_count + (IF outcome[cur] = "error" THEN 0 ELSE 1)
            /\ error_count' = error_count + (IF outcome[cur] = "error" THEN 1 ELSE 0)
            /\ \E db_ok \in BOOLEAN :
                 /\ infra_failed' = (infra_failed \/ ~db_ok)
                 /\ job_results' = update_job_result_in_db(job_results, saved_files[cur],
                                                           outcome[cur] = "error", db_ok)
            /\ pc' = "commit_count"
            /\ UNCHANGED error_msg
       ELSE \* not caught inside the loop: the exception leaves the try block
            /\ Raise("worker exception", TRUE)
            /\ UNCHANGED <<results, success_count, error_count, job_results,
                           infra_failed>>
    /\ UNCHANGED <<response, submitted_cfg, saved_files, job, job_progress, futures,
                   outcome, collected, cur, processed_count, persist_failed>>
    /\ UNCHANGED <<cfgvars, rotvars, callvars>>

\* mutant: the count is stored one too high
ProcessedFilesOffByOne(count) == count + 1

\* the value stored in Job.processed_files (lines 286 and 310)
ProcessedFiles(count) == count

\* lines 286-287: persist the processed count
CommitCount ==
    /\ pc = "commit_count"
    /\ \E ok \in BOOLEAN :
        /\ infra_failed' = (infra_failed \/ ~ok)
        /\ IF ok
           THEN /\ job' = [job EXCEPT !.processed_files = ProcessedFiles(processed_count)]
                /\ pc' = "collect"
           ELSE /\ pc' = "except"
                /\ UNCHANGED job
    /\ UNCHANGED <<response, submitted_cfg, saved_files, job_results, job_progress,
                   futures, outcome, collected, cur, processed_count, success_count,
                   error_count, results, error_msg, persist_failed>>
    /\ UNCHANGED <<cfgvars, rotvars, callvars>>

\* lines 289-308: an exception of the unit (or of the try block) becomes an error result
HandleException ==
    /\ pc = "except"
    /\ error_count' = error_count + 1
    /\ results' = Append(results, [task |-> cur, filename |-> saved_files[cur],
                                   error |-> TRUE])
    /\ \E db_ok \in BOOLEAN :
         /\ infra_failed' = (infra_failed \/ ~db_ok)
         /\ job_results' = update_job_result_in_db(job_results, saved_files[cur],
                                                   TRUE, db_ok)
    /\ pc' = "commit_count_exc"
    /\ UNCHANGED <<response, submitted_cfg, saved_files, job, job_progress, futures,
                   outcome, collected, cur, processed_count, success_count,
                   error_msg, persist_failed>>
    /\ UNCHANGED <<cfgvars, rotvars, callvars>>

\* lines 310-311: persist the processed count inside the except branch
CommitCountExc ==
    /\ pc = "commit_count_exc"
    /\ \E ok \in BOOLEAN :
        /\ infra_failed' = (infra_failed \/ ~ok)
        /\ IF ok
           THEN /\ job' = [job EXCEPT !.processed_files = ProcessedFiles(processed_count)]
                /\ pc' = "collect"
                /\ UNCHANGED error_msg
           ELSE /\ Raise("commit processed_files failed", TRUE)
                /\ UNCHANGED job
    /\ UNCHANGED <<response, submitted_cfg, saved_files, job_results, job_progress,
                   futures, outcome, collected, cur, processed_count, success_count,
                   error_count, results, persist_failed>>
    /\ UNCHANGED <<cfgvars, rotvars, callvars>>

\* leaving the `with ThreadPoolExecutor` block on an exception waits for every unit
ExecutorShutdown ==
    /\ pc = "shutdown"
    /\ \A i \in DOMAIN futures : futures[i] = "done"
    /\ pc' = "handler"
    /\ UNCHANGED <<response, submitted_cfg, saved_files, job, job_results,
                   job_progress, futures, outcome, collected, cur, processed_count,
                   success_count, error_count, results, error_msg, persist_failed, infra_failed>>
    /\ UNCHANGED <<cfgvars, rotvars, callvars>>

\* lines 313-327: every unit was collected; snapshot "generating", write the report
GenerateReport ==
    /\ pc = "collect"
    /\ collected = DOMAIN futures
    /\ job_progress' = update_progress("generating", total_files, total_files, "")
    /\ \E ok \in BOOLEAN :
        /\ infra_failed' = (infra_failed \/ ~ok)
        /\ IF ok
           THEN pc' = "commit_completed" /\ UNCHANGED error_msg
           ELSE Raise("report file failed", FALSE)
    /\ UNCHANGED <<response, submitted_cfg, saved_files, job, job_results, futures,
                   outcome, collected, cur, processed_count, success_count,
                   error_count, results, persist_failed>>
    /\ UNCHANGED <<cfgvars, rotvars, callvars>>

\* lines 329-334: mark the job completed
CommitCompleted ==
    /\ pc = "commit_completed"
    /\ \E ok \in BOOLEAN :
        /\ infra_failed' = (infra_failed \/ ~ok)
        /\ IF ok
           THEN /\ job' = [job EXCEPT !.status = "completed",
                                      !.status_message =
                                          [kind |-> "summary", text |-> "",
                                           success |-> success_count,
                                           total |-> total_files]]
                /\ pc' = "post_completed"
                /\ UNCHANGED error_msg
           ELSE /\ Raise("commit completed failed", FALSE)
                /\ UNCHANGED job
    /\ UNCHANGED <<response, submitted_cfg, saved_files, job_results, job_progress,
                   futures, outcome, collected, cur, processed_count, success_count,
                   error_count, results, persist_failed>>
    /\ UNCHANGED <<cfgvars, rotvars, callvars>>

\* lines 337-347: snapshot "completed", then SystemLog.log (a commit of its own)
LogCompletion ==
    /\ pc = "post_completed"
    /\ job_progress' = update_progress("completed", total_files, total_files, "")
    /\ \E ok \in BOOLEAN :
        /\ infra_failed' = (infra_failed \/ ~ok)
        /\ IF ok
           THEN pc' = "done" /\ UNCHANGED error_msg
           ELSE Raise("system log failed", FALSE)
    /\ UNCHANGED <<response, submitted_cfg, saved_files, job, job_results, futures,
                   outcome, collected, cur, processed_count, success_count,
                   error_count, results, persist_failed>>
    /\ UNCHANGED <<cfgvars, rotvars, callvars>>

\* mutant: the snapshot is refreshed only when the failed status was persisted
FailedProgressIfPersisted(persist_ok, old, msg) ==
    IF persist_ok THEN update_progress("failed", 0, 0, msg) ELSE old

\* the snapshot written by the handler (lines 367-371)
FailedProgress(persist_ok, old, msg) == update_progress("failed", 0, 0, msg)

\* lines 349-378: the handler of the escaped exception
HandleFatal ==
    /\ pc = "handler"
    /\ \E ok \in BOOLEAN :
        /\ job' = IF ok
                  THEN [job EXCEPT !.status = "failed",
                                   !.status_message =
                                       [kind |-> "error", text |-> error_msg,
                                        success |-> 0, total |-> 0]]
                  ELSE job
        /\ persist_failed' = ~ok
        /\ infra_failed' = (infra_failed \/ ~ok)
        /\ job_progress' = FailedProgress(ok, job_progress, error_msg)
    /\ pc' = "done"
    /\ UNCHANGED <<response, submitted_cfg, saved_files, job_results, futures,
                   outcome, collected, cur, processed_count, success_count,
                   error_count, results, error_msg>>
    /\ UNCHANGED <<cfgvars, rotvars, callvars>>

(***************************************************************************)
(* The job specification: one accepted submission and its scoring run.     *)
(***************************************************************************)
InitJobVars ==
    /\ response = "none"
    /\ submitted_cfg = [stored |-> None, env |-> None, provider |-> "none",
                        gemini_keys |-> <<>>]
    /\ saved_files = <<>>
    /\ job = NoJob
    /\ job_results = <<>>
    /\ job_progress = NoProgress
    /\ pc = "idle"
    /\ futures = <<>>
    /\ outcome = <<>>
    /\ collected = {}
    /\ cur = 0
    /\ processed_count = 0
    /\ success_count = 0
    /\ error_count = 0
    /\ results = <<>>
    /\ error_msg = ""
    /\ persist_failed = FALSE
    /\ infra_failed = FALSE

NoCall == [by |-> 0, flagged_before |-> {}, skips |-> 0, returned |-> TRUE]

InitRotIdle ==
    /\ gemini_keys = 1
    /\ key_cycle = 0
    /\ rate_limited_keys = {}
    /\ lock = 0
    /\ tpc = <<>>
    /\ key_idx = <<>>
    /\ last_call = NoCall
    /\ handed = <<>>
    /\ marked = {}

\* no score call and no normalizer call is in progress
NoCallArgs == <<>>

NoReturn == <<>>

InitCallIdle ==
    /\ sc = <<>>
    /\ provider_history = "none"
    /\ args = NoCallArgs
    /\ ret = NoReturn

InitJob ==
    /\ llm_config = [llm_provider |-> "gemini", openai_api_key |-> None,
                     gemini_api_keys |-> "[g-db]"]
    /\ app_config \in [LLM_PROVIDER : {"gemini"}, OPENAI_API_KEY : {None},
                       GEMINI_API_KEYS : {<<>>}, MAX_WORKERS : 1..MaxWorkers]
    /\ InitJobVars
    /\ InitRotIdle
    /\ InitCallIdle

NextJob ==
    \/ \E files \in FileLists(MaxStudents) : upload_files(files)
    \/ RunBegin
    \/ SubmitAll
    \/ \E i \in 1..MaxStudents : WorkerStart(i)
    \/ \E i \in 1..MaxStudents : \E o \in UnitOutcomes : WorkerFinish(i, o)
    \/ \E i \in 1..MaxStudents : CollectNext(i)
    \/ HandleResult
    \/ CommitCount
    \/ HandleException
    \/ CommitCountExc
    \/ ExecutorShutdown
    \/ GenerateReport
    \/ CommitCompleted
    \/ LogCompletion
    \/ HandleFatal

SpecJob == InitJob /\ [][NextJob]_vars

(***************************************************************************)
(* Properties of the job run.                                              *)
(***************************************************************************)
StatusRank(st) ==
    CASE st = "none" -> 0
      [] st = "pending" -> 1
      [] st = "processing" -> 2
      [] OTHER -> 3

\* C1: the persisted Job status never moves backward, and once it is
\* completed or failed it is never changed again.
C1_StatusOneWay ==
    [][/\ StatusRank(job'.status) >= StatusRank(job.status)
       /\ (job.status \in {"completed", "failed"} => job'.status = job.status)]_vars

\* C2: Job.processed_files never decreases and never exceeds Job.total_files.
C2_ProcessedMonotoneBounded ==
    /\ job.processed_files <= job.total_files
    /\ [][/\ job'.processed_files >= job.processed_files
          /\ job'.processed_files <= job'.total_files]_vars

\* C2 witness: two units completed out of submission order and both were counted
C2_Witness ==
    /\ job.total_files = 2
    /\ job.processed_files = 2
    /\ Len(results) >= 2
    /\ results[1].task = 2

\* C3: when the job is completed (and no database call has raised), every
\* JobResult row has left pending and was written exactly once.
C3_WrittenExactlyOnce ==
    (job.status = "completed" /\ ~infra_failed) =>
        \A i \in 1..Len(job_results) :
            /\ job_results[i].status # "pending"
            /\ job_results[i].writes = 1

UniqueName(i) == \A j \in 1..Len(saved_files) : j # i => saved_files[j] # saved_files[i]

ResultsOf(i) == {n \in 1..Len(results) : results[n].task = i}

C5_FatalMarksFailed ==
    (pc = "done" /\ error_msg # "") =>
        /\ job_progress.has
        /\ job_progress.status = "failed"
        /\ job_progress.error = error_msg
        /\ ~persist_failed =>
             /\ job.status = "failed"
             /\ job.status_message.kind = "error"
             /\ job.status_message.text = error_msg

\* C5 witness: the failed status could not be persisted and the snapshot is failed
C5_Witness ==
    /\ pc = "done"
    /\ error_msg # ""
    /\ persist_failed
    /\ job.status # "failed"
    /\ job_progress.status = "failed"

\* C11: exactly one unit of work is submitted per StudentTask, and at every
\* moment at most max_workers units are executing.
C11_OneUnitPerTaskBoundedPool ==
    /\ Cardinality(Running) <= max_workers
    /\ (pc = "collect" \/ futures # <<>> \/ job.status = "completed") =>
         /\ DOMAIN futures = 1..Len(saved_files)
         /\ DOMAIN outcome = 1..Len(saved_files)

\* C11 witness: every worker of the pool is busy and a unit has to wait
C11_Witness ==
    /\ Cardinality(Running) = max_workers
    /\ Queued # {}
    /\ Len(saved_files) > max_workers

(***************************************************************************)
(* The submission specification: any stored and environment configuration, *)
(* one submission, and the first step of its scoring thread.               *)
(***************************************************************************)
InitSubmit ==
    /\ llm_config \in [llm_provider : StoredProviders,
                       openai_api_key : StoredKeys,
                       gemini_api_keys : StoredGeminiJson]
    /\ app_config \in [LLM_PROVIDER : {"gemini", "openai"},
                       OPENAI_API_KEY : EnvKeys,
                       GEMINI_API_KEYS : EnvGeminiKeys,
                       MAX_WORKERS : 1..MaxWorkers]
    /\ InitJobVars
    /\ InitRotIdle
    /\ InitCallIdle

NextSubmit ==
    \/ \E files \in FileLists(MaxStudents) : upload_files(files)
    \/ RunBegin

SpecSubmit == InitSubmit /\ [][NextSubmit]_vars

\* the credential the active provider has according to the configuration
\* precedence: a stored value, also an empty one, wins over the environment
HasUsableCredential(c) ==
    IF c.provider = "gemini"
    THEN \E i \in 1..Len(c.gemini_keys) : Strip(c.gemini_keys[i]) # ""
    ELSE IF c.provider \in OPENAI_COMPAT_PROVIDERS
    THEN LET key == IF c.stored # None THEN c.stored ELSE c.env
         IN  key # None /\ Strip(key) # ""
    ELSE FALSE

\* C6: a submission made while the active provider has no usable credential
\* is rejected: no Job row, no JobResult row, no scoring thread, no processing.
C6_RejectedWithoutCredential ==
    (response # "none" /\ ~HasUsableCredential(submitted_cfg)) =>
        /\ response = "rejected"
        /\ job = NoJob
        /\ job_results = <<>>
        /\ pc = "idle"

(***************************************************************************)
(* The Gemini key rotator: _gemini_keys is a list of gemini_keys keys with *)
(* indices 0..gemini_keys-1, _key_cycle is itertools.cycle over            *)
(* enumerate(keys) and is modelled by the index it yields next.            *)
(***************************************************************************)
Threads == 1..MaxThreads

KeyIndices == 0..(gemini_keys - 1)

\* max_attempts = len(self._gemini_keys) * 2
MaxAttempts(k) == k * 2

\* a weakened skip test that stops skipping one flag too early
ShouldSkipOneShort(idx, flagged, k) ==
    idx \in flagged /\ Cardinality(flagged) < k - 1

\* if idx in self._rate_limited_keys and
\*    len(self._rate_limited_keys) < len(self._gemini_keys)
ShouldSkip(idx, flagged, k) ==
    idx \in flagged /\ Cardinality(flagged) < k

\* a rotation loop that skips every flagged key and counts no attempts; the
\* evaluation of a call that never returns is cut after Fuel iterations
Fuel == 8

RECURSIVE KeyLoopUnbounded(_, _, _, _)
KeyLoopUnbounded(k, pos, flagged, attempts) ==
    IF attempts >= Fuel
    THEN [idx |-> pos, pos |-> pos, flagged |-> flagged,
          skips |-> attempts, returned |-> FALSE]
    ELSE IF pos \in flagged
         THEN KeyLoopUnbounded(k, (pos + 1) % k, flagged, attempts + 1)
         ELSE [idx |-> pos, pos |-> (pos + 1) % k, flagged |-> flagged,
               skips |-> attempts, returned |-> TRUE]

\* the while loop of _get_next_gemini_key and the two statements after it:
\* pos is the index next(self._key_cycle) yields, attempts the skips so far
RECURSIVE KeyLoop(_, _, _, _)
KeyLoop(k, pos, flagged, attempts) ==
    IF attempts < MaxAttempts(k)
    THEN IF ShouldSkip(pos, flagged, k)
         THEN KeyLoop(k, (pos + 1) % k, flagged, attempts + 1)
         ELSE [idx |-> pos, pos |-> (pos + 1) % k, flagged |-> flagged,
               skips |-> attempts, returned |-> TRUE]
    ELSE [idx |-> pos, pos |-> (pos + 1) % k, flagged |-> {},
          skips |-> attempts, returned |-> TRUE]

\* the lock is free when no thread is inside a "with self._lock" block
LockAlwaysFree(l) == TRUE

LockFree(l) == l = 0

\* the last n elements of seq
LastN(seq, n) ==
    IF Len(seq) > n THEN SubSeq(seq, Len(seq) - n + 1, Len(seq)) ELSE seq

\* a thread enters one of the three "with self._lock" blocks
Acquire(t) ==
    /\ tpc[t] \in {"lock_next", "lock_add", "lock_discard"}
    /\ LockFree(lock)
    /\ lock' = t
    /\ tpc' = [tpc EXCEPT ![t] = CASE tpc[t] = "lock_next" -> "in_next"
                                   [] tpc[t] = "lock_add" -> "in_add"
                                   [] OTHER -> "in_discard"]
    /\ UNCHANGED <<gemini_keys, key_cycle, rate_limited_keys, key_idx,
                   last_call, handed, marked>>

\* the body of _get_next_gemini_key for an unchanged key list
get_next_gemini_key(t) ==
    /\ tpc[t] = "in_next"
    /\ LET r == KeyLoop(gemini_keys, key_cycle, rate_limited_keys, 0)
       IN  /\ key_cycle' = r.pos
           /\ rate_limited_keys' = r.flagged
           /\ key_idx' = [key_idx EXCEPT ![t] = r.idx]
           /\ last_call' = [by |-> t, flagged_before |-> rate_limited_keys,
                            skips |-> r.skips, returned |-> r.returned]
           /\ handed' = IF rate_limited_keys = {}
                        THEN LastN(Append(handed, r.idx), gemini_keys)
                        ELSE <<>>
    /\ tpc' = [tpc EXCEPT ![t] = "got_key"]
    /\ UNCHANGED <<gemini_keys, lock, marked>>

\* the return statement leaves the with block
ReturnKey(t) ==
    /\ tpc[t] = "got_key"
    /\ lock' = 0
    /\ last_call' = NoCall
    /\ tpc' = [tpc EXCEPT ![t] = "request"]
    /\ UNCHANGED <<gemini_keys, key_cycle, rate_limited_keys, key_idx,
                   handed, marked>>

RequestOutcomes == {"ok", "rate", "other"}

\* generate_content and the parsing of its answer, outside the lock
Request(t, res) ==
    /\ tpc[t] = "request"
    /\ tpc' = [tpc EXCEPT ![t] = CASE res = "ok" -> "lock_discard"
                                   [] res = "rate" -> "lock_add"
                                   [] OTHER -> "lock_next"]
    /\ key_idx' = IF res = "other" THEN [key_idx EXCEPT ![t] = 0] ELSE key_idx
    /\ UNCHANGED <<gemini_keys, key_cycle, rate_limited_keys, lock,
                   last_call, handed, marked>>

\* with self._lock: self._rate_limited_keys.add(key_idx)
MarkRateLimited(t) ==
    /\ tpc[t] = "in_add"
    /\ rate_limited_keys' = rate_limited_keys \cup {key_idx[t]}
    /\ marked' = marked \cup {key_idx[t]}
    /\ lock' = 0
    /\ tpc' = [tpc EXCEPT ![t] = "lock_next"]
    /\ key_idx' = [key_idx EXCEPT ![t] = 0]
    /\ UNCHANGED <<gemini_keys, key_cycle, last_call, handed>>

\* with self._lock: self._rate_limited_keys.discard(key_idx)
ClearRateLimit(t) ==
    /\ tpc[t] = "in_discard"
    /\ rate_limited_keys' = rate_limited_keys \ {key_idx[t]}
    /\ marked' = marked \ {key_idx[t]}
    /\ lock' = 0
    /\ tpc' = [tpc EXCEPT ![t] = "lock_next"]
    /\ key_idx' = [key_idx EXCEPT ![t] = 0]
    /\ UNCHANGED <<gemini_keys, key_cycle, last_call, handed>>

InitRot ==
    /\ llm_config = [llm_provider |-> "gemini", openai_api_key |-> None,
                     gemini_api_keys |-> "[g-db]"]
    /\ app_config = [LLM_PROVIDER |-> "gemini", OPENAI_API_KEY |-> None,
                     GEMINI_API_KEYS |-> <<>>, MAX_WORKERS |-> MaxThreads]
    /\ InitJobVars
    /\ InitCallIdle
    /\ gemini_keys \in 1..MaxKeys
    /\ key_cycle = 0
    /\ rate_limited_keys = {}
    /\ lock = 0
    /\ tpc = [t \in Threads |-> "lock_next"]
    /\ key_idx = [t \in Threads |-> 0]
    /\ last_call = NoCall
    /\ handed = <<>>
    /\ marked = {}

NextRot ==
    \/ \E t \in Threads : Acquire(t) /\ UNCHANGED <<cfgvars, jobvars, callvars>>
    \/ \E t \in Threads : get_next_gemini_key(t) /\ UNCHANGED <<cfgvars, jobvars, callvars>>
    \/ \E t \in Threads : ReturnKey(t) /\ UNCHANGED <<cfgvars, jobvars, callvars>>
    \/ \E t \in Threads, res \in RequestOutcomes :
           Request(t, res) /\ UNCHANGED <<cfgvars, jobvars, callvars>>
    \/ \E t \in Threads : MarkRateLimited(t) /\ UNCHANGED <<cfgvars, jobvars, callvars>>
    \/ \E t \in Threads : ClearRateLimit(t) /\ UNCHANGED <<cfgvars, jobvars, callvars>>

SpecRot == InitRot /\ [][NextRot]_vars

\* a call of _get_next_gemini_key has just computed its result
CallDone == last_call.by # 0

C8_AllFlaggedClears ==
    (CallDone /\ last_call.flagged_before = KeyIndices) =>
        /\ last_call.returned
        /\ rate_limited_keys = {}

\* C9: every call returns, after skipping at most 2k credentials.
C9_TerminatesWithinTwoK ==
    CallDone =>
        /\ last_call.returned
        /\ last_call.skips <= 2 * gemini_keys

\* a call made with every credential flagged, and one that skipped
C9_Witness ==
    /\ CallDone
    /\ last_call.returned
    /\ \/ last_call.flagged_before = KeyIndices
       \/ last_call.skips = gemini_keys - 1 /\ gemini_keys > 1

\* the threads inside a "with self._lock" block
InsideLock == {t \in Threads : tpc[t] \in {"in_next", "got_key", "in_add", "in_discard"}}

NOT_FOUND == "TIDAK_DITEMUKAN"

\* 'Gagal memproses respons LLM', as its words
FAIL_MESSAGE == <<"Gagal", "memproses", "respons", "LLM">>

\* a score of a ScoringResult: null or an integer
NullScore == [some |-> FALSE, v |-> 0]

SomeScore(n) == [some |-> TRUE, v |-> n]

\* the raw "score" values: numbers and numeric strings are given in tenths
\* (855 is 85.5); "word" is a non-numeric string, "empty" the empty string,
\* "inf" the number 1e999 (or the literal Infinity), "infstr" the string
\* "inf", "nan" the literal NaN, "list" an array, "null" the JSON null
ScoreTenths == {-15, 0, 395, 855, 1000, 1005}

RawScores ==
    {[kind |-> k, tenths |-> 0] :
        k \in {"absent", "null", "word", "empty", "inf", "infstr", "nan", "list"}}
    \cup {[kind |-> k, tenths |-> t] : k \in {"number", "numstr"}, t \in ScoreTenths}

\* the raw "evaluation" values: absent, a text (its words), or a value that is
\* not a text (a number, an array)
RawEvaluations ==
    {[kind |-> "absent", words |-> <<>>],
     [kind |-> "text", words |-> <<>>],
     [kind |-> "text", words |-> <<"baik">>],
     [kind |-> "text", words |-> <<"baik", "sekali", "lengkap">>],
     [kind |-> "nontext", words |-> <<"7">>]}

Absent == "absent"

RawIds == {Absent, NOT_FOUND, "L200111222"}

RawStudentNames == {Absent, NOT_FOUND, "Nama Dari Dokumen"}

\* the shapes of a model output: a JSON object; JSON that is not an object;
\* text around one flat JSON object; text whose first {...} fragment is not
\* JSON; text without braces
Shapes == {"object", "scalar", "embedded", "broken", "plain"}

RawTexts ==
    [shape : {"object", "embedded"}, nim : RawIds, student_name : RawStudentNames,
     score : RawScores, evaluation : RawEvaluations]
    \cup [shape : {"scalar", "broken", "plain"}, nim : {Absent},
          student_name : {Absent}, score : {[kind |-> "absent", tenths |-> 0]},
          evaluation : {[kind |-> "absent", words |-> <<>>]}]

\* float(score)
py_float(s) ==
    CASE s.kind \in {"number", "numstr"} ->
             [exc |-> "none", cls |-> "finite", tenths |-> s.tenths]
      [] s.kind \in {"inf", "infstr"} -> [exc |-> "none", cls |-> "inf", tenths |-> 0]
      [] s.kind = "nan" -> [exc |-> "none", cls |-> "nan", tenths |-> 0]
      [] s.kind \in {"word", "empty"} -> [exc |-> "ValueError", cls |-> "nan", tenths |-> 0]
      [] OTHER -> [exc |-> "TypeError", cls |-> "nan", tenths |-> 0]

\* int(f) of a float: truncation toward zero, ValueError for NaN,
\* OverflowError for an infinity
py_int(f) ==
    CASE f.cls = "finite" ->
             [exc |-> "none",
              v |-> IF f.tenths >= 0 THEN f.tenths \div 10 ELSE -((-f.tenths) \div 10)]
      [] f.cls = "nan" -> [exc |-> "ValueError", v |-> 0]
      [] OTHER -> [exc |-> "OverflowError", v |-> 0]

\* a score that is stored as the model gave it
NoClamp(lo, hi, n) == n

\* max(score_min, min(score_max, score))
Clamp(lo, hi, n) ==
    LET m == IF hi < n THEN hi ELSE n
    IN  IF lo > m THEN lo ELSE m

\* int(float(score)) followed by the clamp; exc is the exception of the two
\* conversions, "none" when both succeed
int_float_clamp(s, lo, hi) ==
    LET f == py_float(s)
    IN  IF f.exc # "none"
        THEN [exc |-> f.exc, score |-> NullScore]
        ELSE LET i == py_int(f)
             IN  IF i.exc # "none"
                 THEN [exc |-> i.exc, score |-> NullScore]
                 ELSE [exc |-> "none", score |-> SomeScore(Clamp(lo, hi, i.v))]

\* the exceptions of `except (ValueError, TypeError)`
CaughtByScoreHandler == {"ValueError", "TypeError"}

\* a call that raised instead of returning a ScoringResult
Raised(e) ==
    [raised |-> e, nim |-> "", student_name |-> "", score |-> NullScore,
     evaluation |-> <<>>, error |-> TRUE]

Returned(nim, student_name, score, evaluation, error) ==
    [raised |-> "none", nim |-> nim, student_name |-> student_name,
     score |-> score, evaluation |-> evaluation, error |-> error]

\* result.get(key, default)
Get(value, default) == IF value = Absent THEN default ELSE value

\* ' '.join(words[:max_words]) + '...' when there are more than max_words words
Truncate(words, max_words) ==
    IF Len(words) > max_words
    THEN Append(SubSeq(words, 1, max_words), "...")
    ELSE words

\* _extract_fallback: the defaults, overwritten by what the first {...}
\* fragment holds; any exception inside ends the extraction
extract_fallback(raw, lo, hi) ==
    LET c == int_float_clamp(raw.score, lo, hi)
        has_score == raw.score.kind # "absent"
        aborted == has_score /\ c.exc \notin (CaughtByScoreHandler \cup {"none"})
        usable == has_score /\ c.exc = "none"
    IN  IF raw.shape # "embedded" \/ aborted
        THEN Returned(NOT_FOUND, NOT_FOUND, NullScore, FAIL_MESSAGE, TRUE)
        ELSE Returned(Get(raw.nim, NOT_FOUND),
                      Get(raw.student_name, NOT_FOUND),
                      IF usable THEN c.score ELSE NullScore,
                      IF raw.evaluation.kind = "absent"
                      THEN FAIL_MESSAGE ELSE raw.evaluation.words,
                      ~usable)

\* _parse_response
parse_response(raw, lo, hi, enable_evaluation, max_words) ==
    IF raw.shape = "scalar"
    THEN Raised("AttributeError")
    ELSE IF raw.shape # "object"
    THEN extract_fallback(raw, lo, hi)
    ELSE LET c == IF raw.score.kind \in {"absent", "null"}
                  THEN [exc |-> "none", score |-> NullScore]
                  ELSE int_float_clamp(raw.score, lo, hi)
         IN  IF c.exc \notin (CaughtByScoreHandler \cup {"none"})
             THEN Raised(c.exc)
             ELSE IF /\ enable_evaluation
                     /\ raw.evaluation.kind = "nontext"
             THEN Raised("AttributeError")
             ELSE Returned(Get(raw.nim, NOT_FOUND),
                           Get(raw.student_name, NOT_FOUND),
                           c.score,
                           IF enable_evaluation
                           THEN Truncate(raw.evaluation.words, max_words)
                           ELSE <<>>,
                           FALSE)

\* the score bounds of a job: score_min < score_max
ScoreBounds == {<<40, 100>>, <<0, 50>>}

\* max_words of the calls
MaxWords == 2

InitParse ==
    /\ llm_config = [llm_provider |-> "gemini", openai_api_key |-> None,
                     gemini_api_keys |-> "[g-db]"]
    /\ app_config = [LLM_PROVIDER |-> "gemini", OPENAI_API_KEY |-> None,
                     GEMINI_API_KEYS |-> <<>>, MAX_WORKERS |-> 1]
    /\ InitJobVars
    /\ InitRotIdle
    /\ sc = <<>>
    /\ provider_history = "none"
    /\ args \in [raw : RawTexts, bounds : ScoreBounds,
                 enable_evaluation : BOOLEAN, max_words : {MaxWords}]
    /\ ret = NoReturn

\* one call of _parse_response
Parse ==
    /\ ret = NoReturn
    /\ ret' = parse_response(args.raw, args.bounds[1], args.bounds[2],
                             args.enable_evaluation, args.max_words)
    /\ UNCHANGED <<cfgvars, jobvars, rotvars, sc, provider_history, args>>

NextParse == Parse

SpecParse == InitParse /\ [][NextParse]_vars

(***************************************************************************)
(* The backend adapters: LLMService._score_with_gemini and                 *)
(* _score_with_openai_compat.  Every caller is a worker unit making one    *)
(* score call; a `with self._lock` block is one step.  An error text is    *)
(* the set of the tested substrings it contains.                           *)
(***************************************************************************)
\* largest app.config MAX_RETRIES of the modelled deployments
MaxRetries == 2

\* self.max_retries = app_config.get('MAX_RETRIES', 3)
max_retries == MaxRetries

\* the worker units that score: the two students of a job
Callers == {1, 2}

\* the calls of the OpenAI-compatible adapter share no state (every call
\* builds its own client): one caller shows all of them
OpenAICallers == {1}

NoError == ""

\* str(e).lower() of the exceptions a request can raise
ErrorTexts ==
    {"rate limit exceeded", "quota exhausted", "http 429", "timeout",
     "unknown parameter response_format", "json_object is not available",
     "unsupported json mode", "unsupported model"}

\* the tested substrings an error text contains (`'rate' in err`, ...)
Substrings(err) ==
    CASE err = "rate limit exceeded" -> {"rate"}
      [] err = "quota exhausted" -> {"quota"}
      [] err = "http 429" -> {"429"}
      [] err = "unknown parameter response_format" -> {"response_format"}
      [] err = "json_object is not available" -> {"json_object", "json"}
      [] err = "unsupported json mode" -> {"unsupported", "json"}
      [] err = "unsupported model" -> {"unsupported"}
      [] OTHER -> {}

\* a well-formed answer of the model with the given raw score
ObjectAnswer(score) ==
    [shape |-> "object", nim |-> "L200111222", student_name |-> "Nama Dari Dokumen",
     score |-> score, evaluation |-> [kind |-> "text", words |-> <<"baik">>]]

\* an answer that is no JSON and holds no fragment
PlainAnswer ==
    [shape |-> "plain", nim |-> Absent, student_name |-> Absent,
     score |-> [kind |-> "absent", tenths |-> 0],
     evaluation |-> [kind |-> "absent", words |-> <<>>]]

\* the model outputs of the successful requests
AnswerTexts ==
    {ObjectAnswer([kind |-> "number", tenths |-> 855]),
     ObjectAnswer([kind |-> "number", tenths |-> 1005]),
     ObjectAnswer([kind |-> "word", tenths |-> 0]),
     ObjectAnswer([kind |-> "inf", tenths |-> 0]),
     PlainAnswer}

\* a model output with a finite numeric score in a well-formed object
WellFormed(raw) == raw.shape = "object" /\ raw.score.kind = "number"

\* the errors that differ for the Gemini adapter, which tests 'rate', 'quota'
\* and '429' only
GeminiErrorTexts == {"rate limit exceeded", "quota exhausted", "http 429", "timeout"}

\* what a request can come back with: an answer of the model or an exception
Answers(errors) ==
    [ok : {TRUE}, raw : AnswerTexts, err : {NoError}]
    \cup [ok : {FALSE}, raw : {PlainAnswer}, err : errors]

\* 'rate' in err or 'quota' in err or '429' in err
gemini_rate_limited(err) ==
    "rate" \in Substrings(err) \/ "quota" \in Substrings(err) \/ "429" \in Substrings(err)

\* 'rate' in err or '429' in err
openai_rate_limited(err) == "rate" \in Substrings(err) \/ "429" \in Substrings(err)

\* a negotiation that retries every rejection in plain-text mode
json_mode_any_rejection(err) == TRUE

\* 'response_format' in err_text or 'json_object' in err_text
\*     or 'unsupported' in err_text and 'json' in err_text
json_mode_not_supported(err) ==
    \/ "response_format" \in Substrings(err)
    \/ "json_object" \in Substrings(err)
    \/ "unsupported" \in Substrings(err) /\ "json" \in Substrings(err)

\* a loop that makes one attempt too many
AttemptsLeftInclusive(attempt, retries) == attempt <= retries

\* for attempt in range(self.max_retries)
AttemptsLeft(attempt, retries) == attempt < retries

\* 2 ** attempt
Pow2(n) == IF n = 0 THEN 1 ELSE IF n = 1 THEN 2 ELSE IF n = 2 THEN 4 ELSE 8

\* a success that leaves the flag of its key in place
KeepFlag(flagged, idx) == flagged

\* self._rate_limited_keys.discard(key_idx)
Discard(flagged, idx) == flagged \ {idx}

\* the pause after a failed Gemini attempt: time.sleep(1) or time.sleep(2 ** attempt)
gemini_pause(err, attempt) == IF gemini_rate_limited(err) THEN 1 ELSE Pow2(attempt)

\* the pause after a failed OpenAI-compatible attempt: both branches sleep 2 ** attempt
openai_pause(err, attempt) ==
    IF openai_rate_limited(err) THEN Pow2(attempt) ELSE Pow2(attempt)

\* the result after the loop: 'Gagal menilai setelah N percobaan (...): {last_error}'
exhausted_result(last_error) ==
    Returned("ERROR", "ERROR", NullScore, <<"Gagal", "menilai", last_error>>, TRUE)

\* 'API key ... belum dikonfigurasi'
no_key_result ==
    Returned("ERROR", "ERROR", NullScore, <<"API", "key", "belum", "dikonfigurasi">>, TRUE)

NoResult == Returned("", "", NullScore, <<>>, FALSE)

provider == get_active_config(llm_config, app_config).provider

\* api_key of _resolve_openai_compat_auth
api_key == get_active_config(llm_config, app_config).openai_api_key

NewCall ==
    [pc |-> "attempt", attempt |-> 0, tries |-> 0, key_idx |-> 0, requests |-> 0,
     rejection |-> NoError, plains |-> 0, last_error |-> NoError, slept |-> 0,
     result |-> NoResult]

\* what the provider has answered so far: "rate_then_ok" when the first
\* request got a rate-limit error and every later one a well-formed answer
History(h, ans) ==
    IF h = "none"
    THEN IF ~ans.ok /\ ans.err = "rate limit exceeded" THEN "rate_then_ok" ELSE "other"
    ELSE IF h = "rate_then_ok" /\ ans.ok /\ WellFormed(ans.raw) THEN h ELSE "other"

\* the part of the state a score call leaves alone
ScoreFrame ==
    UNCHANGED <<cfgvars, jobvars, lock, tpc, key_idx, last_call, handed, marked, args>>

\* the except branch of an attempt: remember the error, pause, next attempt
FailCall(c, err, pause) ==
    [c EXCEPT !.pc = "attempt", !.attempt = @ + 1, !.last_error = err,
              !.slept = pause, !.key_idx = 0]

\* return result: the locals of the call are gone; the counters stay for
\* the account of the call
FinishCall(c, res) ==
    [c EXCEPT !.pc = "done", !.result = res, !.key_idx = 0, !.slept = 0,
              !.last_error = IF res.nim = "ERROR" THEN @ ELSE NoError,
              !.rejection = NoError, !.plains = 0]

\* _parse_response with the arguments of the score call
ParseAnswer(raw) ==
    parse_response(raw, args.bounds[1], args.bounds[2], args.enable_evaluation,
                   args.max_words)

\* lines 351-352: the next attempt takes a key from the rotation
GeminiNextKey(t) ==
    /\ provider = "gemini"
    /\ sc[t].pc = "attempt"
    /\ AttemptsLeft(sc[t].attempt, max_retries)
    /\ LET r == KeyLoop(gemini_keys, key_cycle, rate_limited_keys, 0)
       IN  /\ key_cycle' = r.pos
           /\ rate_limited_keys' = r.flagged
           /\ sc' = [sc EXCEPT ![t] = [@ EXCEPT !.pc = "request", !.key_idx = r.idx,
                                                !.tries = @ + 1]]
    /\ UNCHANGED <<gemini_keys, provider_history, ret>>
    /\ ScoreFrame

\* lines 355-402: generate_content, then discard and parse, or the except branch
GeminiRequest(t, ans) ==
    /\ provider = "gemini"
    /\ sc[t].pc = "request"
    /\ LET c == [sc[t] EXCEPT !.requests = @ + 1]
           res == ParseAnswer(ans.raw)
           failed == ~ans.ok \/ res.raised # "none"
           err == IF ans.ok THEN res.raised ELSE ans.err
           cleared == IF ans.ok THEN Discard(rate_limited_keys, c.key_idx)
                      ELSE rate_limited_keys
       IN  /\ rate_limited_keys' =
                  IF failed /\ gemini_rate_limited(err)
                  THEN cleared \cup {c.key_idx} ELSE cleared
           /\ sc' = [sc EXCEPT ![t] =
                        IF failed THEN FailCall(c, err, gemini_pause(err, c.attempt))
                        ELSE FinishCall(c, res)]
    /\ provider_history' = History(provider_history, ans)
    /\ UNCHANGED <<gemini_keys, key_cycle, ret>>
    /\ ScoreFrame

\* lines 424-431: no API key, no request
OpenAINoKey(t) ==
    /\ provider \in OPENAI_COMPAT_PROVIDERS
    /\ sc[t].pc = "attempt"
    /\ sc[t].tries = 0
    /\ ~Truthy(api_key)
    /\ sc' = [sc EXCEPT ![t] = FinishCall(@, no_key_result)]
    /\ UNCHANGED <<gemini_keys, key_cycle, rate_limited_keys, provider_history, ret>>
    /\ ScoreFrame

\* line 438: the next attempt
OpenAIAttempt(t) ==
    /\ provider \in OPENAI_COMPAT_PROVIDERS
    /\ Truthy(api_key)
    /\ sc[t].pc = "attempt"
    /\ AttemptsLeft(sc[t].attempt, max_retries)
    /\ sc' = [sc EXCEPT ![t] = [@ EXCEPT !.pc = "request", !.tries = @ + 1,
                                         !.rejection = NoError, !.plains = 0]]
    /\ UNCHANGED <<gemini_keys, key_cycle, rate_limited_keys, provider_history, ret>>
    /\ ScoreFrame

\* lines 451-466 and 477-499: the structured-JSON request of an attempt
OpenAIRequest(t, ans) ==
    /\ provider \in OPENAI_COMPAT_PROVIDERS
    /\ sc[t].pc = "request"
    /\ LET c == [sc[t] EXCEPT !.requests = @ + 1,
                              !.rejection = IF ans.ok THEN NoError ELSE ans.err]
           res == ParseAnswer(ans.raw)
       IN  sc' = [sc EXCEPT ![t] =
                     IF ~ans.ok
                     THEN IF json_mode_not_supported(ans.err)
                          THEN [c EXCEPT !.pc = "plain"]
                          ELSE FailCall(c, ans.err, openai_pause(ans.err, c.attempt))
                     ELSE IF res.raised # "none"
                          THEN FailCall(c, res.raised, openai_pause(res.raised, c.attempt))
                          ELSE FinishCall(c, res)]
    /\ provider_history' = History(provider_history, ans)
    /\ UNCHANGED <<gemini_keys, key_cycle, rate_limited_keys, ret>>
    /\ ScoreFrame

\* lines 471-499: the plain-text request of the same attempt
OpenAIPlain(t, ans) ==
    /\ provider \in OPENAI_COMPAT_PROVIDERS
    /\ sc[t].pc = "plain"
    /\ LET c == [sc[t] EXCEPT !.requests = @ + 1, !.plains = @ + 1]
           res == ParseAnswer(ans.raw)
           err == IF ans.ok THEN res.raised ELSE ans.err
       IN  sc' = [sc EXCEPT ![t] =
                     IF ~ans.ok \/ res.raised # "none"
                     THEN FailCall(c, err, openai_pause(err, c.attempt))
                     ELSE FinishCall(c, res)]
    /\ provider_history' = History(provider_history, ans)
    /\ UNCHANGED <<gemini_keys, key_cycle, rate_limited_keys, ret>>
    /\ ScoreFrame

\* lines 404-410 and 501-507: every attempt failed
Exhausted(t) ==
    /\ sc[t].pc = "attempt"
    /\ ~AttemptsLeft(sc[t].attempt, max_retries)
    /\ sc' = [sc EXCEPT ![t] = FinishCall(@, exhausted_result(@.last_error))]
    /\ UNCHANGED <<gemini_keys, key_cycle, rate_limited_keys, provider_history, ret>>
    /\ ScoreFrame

ActiveCallers == IF provider = "gemini" THEN Callers ELSE OpenAICallers

InitScore ==
    /\ llm_config \in [llm_provider : {"gemini", "openai"},
                       openai_api_key : {None, "sk-db"},
                       gemini_api_keys : {"[g-db]"}]
    /\ app_config = [LLM_PROVIDER |-> "gemini", OPENAI_API_KEY |-> None,
                     GEMINI_API_KEYS |-> <<>>, MAX_WORKERS |-> Cardinality(Callers)]
    /\ InitJobVars
    /\ gemini_keys \in 1..MaxKeys
    /\ key_cycle = 0
    /\ rate_limited_keys = {}
    /\ lock = 0
    /\ tpc = <<>>
    /\ key_idx = <<>>
    /\ last_call = NoCall
    /\ handed = <<>>
    /\ marked = {}
    /\ sc = [t \in Callers |-> NewCall]
    /\ provider_history = "none"
    /\ args = [bounds |-> <<40, 100>>, enable_evaluation |-> TRUE,
               max_words |-> MaxWords]
    /\ ret = NoReturn

NextScore ==
    \/ \E t \in Callers : GeminiNextKey(t)
    \/ \E t \in Callers, ans \in Answers(GeminiErrorTexts) : GeminiRequest(t, ans)
    \/ \E t \in OpenAICallers : OpenAINoKey(t)
    \/ \E t \in OpenAICallers : OpenAIAttempt(t)
    \/ \E t \in OpenAICallers, ans \in Answers(ErrorTexts) : OpenAIRequest(t, ans)
    \/ \E t \in OpenAICallers, ans \in Answers(ErrorTexts) : OpenAIPlain(t, ans)
    \/ \E t \in ActiveCallers : Exhausted(t)

SpecScore == InitScore /\ [][NextScore]_vars

\* the JobResult status the orchestrator stores for a result of a unit
StoredStatus(res) ==
    update_job_result_in_db(<<[filename |-> "a.pdf", status |-> "pending", writes |-> 0]>>,
                            "a.pdf", res.error, TRUE)[1].status

\* C12: a score call makes at most max_retries attempts; when every attempt
\* has failed it returns (does not raise) the error result ERROR/ERROR/null
\* whose evaluation holds the last error, and issues no further request.
C12_BoundedAttemptsErrorResult ==
    /\ [](\A t \in Callers :
            /\ sc[t].tries <= max_retries
            /\ (sc[t].pc = "done" /\ sc[t].attempt = max_retries) =>
                 /\ sc[t].result.raised = "none"
                 /\ sc[t].result.error
                 /\ sc[t].result.nim = "ERROR"
                 /\ sc[t].result.student_name = "ERROR"
                 /\ sc[t].result.score = NullScore
                 /\ sc[t].last_error # NoError
                 /\ \E i \in 1..Len(sc[t].result.evaluation) :
                        sc[t].result.evaluation[i] = sc[t].last_error)
    /\ [][\A t \in Callers : sc[t].pc = "done" => sc'[t] = sc[t]]_vars

\* C12 witness: both adapter families have a call whose attempts all failed
C12_Witness ==
    \E t \in Callers :
        /\ sc[t].pc = "done"
        /\ sc[t].attempt = max_retries
        /\ sc[t].requests >= max_retries
        /\ sc[t].result.nim = "ERROR"
        /\ sc[t].last_error = "timeout"

\* the scenario of C13: one Gemini credential, whose first request got a
\* rate-limit error and whose later requests got well-formed answers
RateThenOk ==
    /\ provider = "gemini"
    /\ gemini_keys = 1
    /\ provider_history = "rate_then_ok"

RateOrQuotaError(err) ==
    "rate" \in Substrings(err) \/ "quota" \in Substrings(err) \/ "429" \in Substrings(err)

\* C14: in both adapter families a failed attempt with a rate-limit or quota
\* error is followed by the fixed pause of 1 s and, with a rotated credential,
\* flags that credential; any other failed attempt is followed by a pause of
\* 2^attempt seconds and flags no credential.
C14_PauseByErrorClass ==
    [][\A t \in Callers :
          sc'[t].attempt = sc[t].attempt + 1 =>
              IF RateOrQuotaError(sc'[t].last_error)
              THEN /\ sc'[t].slept = 1
                   /\ provider = "gemini" =>
                        rate_limited_keys' = rate_limited_keys \cup {sc[t].key_idx}
              ELSE /\ sc'[t].slept = Pow2(sc[t].attempt)
                   /\ rate_limited_keys' \subseteq rate_limited_keys]_vars

\* the rejections the spec names: "unsupported", "json_object", "response_format"
NamedRejection(err) ==
    \/ "unsupported" \in Substrings(err)
    \/ "json_object" \in Substrings(err)
    \/ "response_format" \in Substrings(err)

\* the rejections of the amended claim: "response_format", "json_object", or
\* "unsupported" together with "json"
JsonModeRejection(err) ==
    \/ "response_format" \in Substrings(err)
    \/ "json_object" \in Substrings(err)
    \/ {"unsupported", "json"} \subseteq Substrings(err)

\* the plain-text negotiation for a given class of rejections
PlainRetryRule(Match(_)) ==
    \A t \in OpenAICallers :
        provider \in OPENAI_COMPAT_PROVIDERS =>
            /\ sc[t].plains <= 1
            /\ sc[t].requests <= 2 * max_retries
            /\ sc[t].pc = "plain" => Match(sc[t].rejection) /\ sc[t].plains = 0
            /\ (sc[t].pc = "attempt" /\ sc[t].rejection # NoError) =>
                   (Match(sc[t].rejection) <=> sc[t].plains = 1)

\* the plain-text request belongs to the attempt of the rejected request
PlainRetrySameAttempt ==
    \A t \in OpenAICallers :
        /\ (sc[t].pc = "request" /\ sc'[t].pc = "plain") =>
              /\ sc'[t].attempt = sc[t].attempt
              /\ sc'[t].tries = sc[t].tries
              /\ sc'[t].slept = sc[t].slept
              /\ sc'[t].requests = sc[t].requests + 1
        /\ sc[t].pc = "plain" => sc'[t].pc # "plain"

\* C15 as stated: a rejection matching "unsupported", "json_object" or
\* "response_format" is followed by exactly one plain-text request in the same
\* attempt, no other rejection is, and a call issues at most 2*max_retries requests.
C15_PlainRetryAsStated ==
    [](PlainRetryRule(NamedRejection)) /\ [][PlainRetrySameAttempt]_vars

\* C15 amended: the same with the rejections "response_format", "json_object",
\* or "unsupported" together with "json".
C15_PlainRetryJsonMode ==
    [](PlainRetryRule(JsonModeRejection)) /\ [][PlainRetrySameAttempt]_vars

\* C15 witness: an attempt failed after its plain-text request
C15_Witness ==
    \E t \in OpenAICallers :
        /\ provider \in OPENAI_COMPAT_PROVIDERS
        /\ sc[t].pc = "attempt"
        /\ sc[t].plains = 1
        /\ sc[t].rejection = "unsupported json mode"
        /\ sc[t].requests = 2 * sc[t].attempt

(***************************************************************************)
(* Precedence of a stored provider key over the environment key.           *)
(***************************************************************************)
\* C16: once a submission has resolved the active configuration, a stored
\* openai_api_key that is explicitly empty gives an empty resolved key even
\* when the environment holds a key, while an unset stored key falls back to
\* the environment key.
C16_ExplicitEmptyNoFallback ==
    response # "none" =>
        /\ (llm_config.openai_api_key = "" /\ Truthy(app_config.OPENAI_API_KEY))
              => api_key = ""
        /\ llm_config.openai_api_key = None => api_key = app_config.OPENAI_API_KEY

(***************************************************************************)
(* The identity fallback of score_report(..., source_filename=...): the    *)
(* result of the adapter and the name of the uploaded file give the result *)
(* handed to the caller.  A filename is the sequence of its tokens, split  *)
(* at underscores, spaces and hyphens, without the extension.              *)
(***************************************************************************)
\* longest enumerated filename, in tokens
MaxTokens == 3

\* digits of an institution student id such as L200240020
IdDigits == 9

\* the leading letters and the digits after them of every token used
TokenShape(tok) ==
    CASE tok = "L200240020" -> [letters |-> 1, digits |-> 9]
      [] tok = "L2002" -> [letters |-> 1, digits |-> 4]
      [] tok = "200240020" -> [letters |-> 0, digits |-> 9]
      [] tok = "20260101" -> [letters |-> 0, digits |-> 8]
      [] tok = "12345678" -> [letters |-> 0, digits |-> 8]
      [] tok = "1159403" -> [letters |-> 0, digits |-> 7]
      [] tok = "A" -> [letters |-> 1, digits |-> 0]
      [] tok = "IMG" -> [letters |-> 3, digits |-> 0]
      [] tok = "file" -> [letters |-> 4, digits |-> 0]
      [] tok = "final" -> [letters |-> 5, digits |-> 0]
      [] tok = "report" -> [letters |-> 6, digits |-> 0]
      [] tok = "HANUFI" -> [letters |-> 6, digits |-> 0]
      [] tok = "Hanufi" -> [letters |-> 6, digits |-> 0]
      [] tok = "HOLIZAH" -> [letters |-> 7, digits |-> 0]
      [] tok = "Holizah" -> [letters |-> 7, digits |-> 0]
      [] tok = "assignsubmission" -> [letters |-> 16, digits |-> 0]

\* str.capitalize() of a word
Capitalize(tok) ==
    CASE tok = "HANUFI" -> "Hanufi"
      [] tok = "HOLIZAH" -> "Holizah"
      [] tok = "file" -> "File"
      [] tok = "final" -> "Final"
      [] tok = "report" -> "Report"
      [] tok = "assignsubmission" -> "Assignsubmission"
      [] OTHER -> tok

Tokens == {"L200240020", "L2002", "200240020", "20260101", "Holizah", "HANUFI", "A"}

\* the filenames of the repository's tests
ImgFilename == <<"IMG", "20260101", "12345678", "report", "final">>

MoodleFilename ==
    <<"HOLIZAH", "HANUFI", "1159403", "assignsubmission", "file",
      "L200240020", "Holizah", "Hanufi", "A">>

Filenames ==
    UNION {[1..n -> Tokens] : n \in 1..MaxTokens} \cup {ImgFilename, MoodleFilename}

\* a pattern that takes any long digit run, with or without a letter prefix
is_long_digit_run(tok) == TokenShape(tok).digits >= 8

\* the institution student-id pattern: a letter prefix and IdDigits digits
is_student_id(tok) ==
    TokenShape(tok).letters >= 1 /\ TokenShape(tok).digits = IdDigits

\* a word that can be part of a human name
is_name_word(tok) == TokenShape(tok).digits = 0 /\ TokenShape(tok).letters >= 2

\* index of the first token matching the student-id pattern, 0 when none does
find_student_id(tokens) ==
    IF \E i \in 1..Len(tokens) : is_student_id(tokens[i])
    THEN CHOOSE i \in 1..Len(tokens) :
            /\ is_student_id(tokens[i])
            /\ \A j \in 1..(i - 1) : ~is_student_id(tokens[j])
    ELSE 0

\* the capitalized name words that follow position i
RECURSIVE NameWords(_, _)
NameWords(tokens, i) ==
    IF i > Len(tokens) \/ ~is_name_word(tokens[i])
    THEN <<>>
    ELSE <<Capitalize(tokens[i])>> \o NameWords(tokens, i + 1)

\* ' '.join(words)
RECURSIVE JoinWords(_)
JoinWords(words) ==
    IF words = <<>> THEN ""
    ELSE IF Len(words) = 1 THEN words[1]
    ELSE words[1] \o " " \o JoinWords(Tail(words))

\* a fallback that overrides whatever the model returned
AlwaysFill(current, candidate) == IF candidate # "" THEN candidate ELSE current

\* the fallback fills a field only when the model left the sentinel in it
KeepOrFill(current, candidate) ==
    IF current = NOT_FOUND /\ candidate # "" THEN candidate ELSE current

\* resolve(result, source_filename)
resolve_identity(result, tokens) ==
    LET i == find_student_id(tokens)
        id == IF i = 0 THEN "" ELSE tokens[i]
        name == IF i = 0 THEN "" ELSE JoinWords(NameWords(tokens, i + 1))
    IN  [result EXCEPT !.nim = KeepOrFill(@, id),
                       !.student_name = KeepOrFill(@, name)]

\* results an adapter hands to score_report
AdapterResults ==
    {Returned(n, s, c, <<"Jawaban", "baik">>, e) :
        n \in {NOT_FOUND, "L200111222", "ERROR"},
        s \in {NOT_FOUND, "Nama Dari Dokumen"},
        c \in {NullScore, SomeScore(82)},
        e \in BOOLEAN}

InitIdentity ==
    /\ llm_config = [llm_provider |-> "gemini", openai_api_key |-> None,
                     gemini_api_keys |-> "[g-db]"]
    /\ app_config = [LLM_PROVIDER |-> "gemini", OPENAI_API_KEY |-> None,
                     GEMINI_API_KEYS |-> <<>>, MAX_WORKERS |-> 1]
    /\ InitJobVars
    /\ InitRotIdle
    /\ sc = <<>>
    /\ provider_history = "none"
    /\ args \in [result : AdapterResults, source_filename : Filenames]
    /\ ret = NoReturn

\* the end of score_report: the adapter's result passes the identity fallback
ResolveIdentity ==
    /\ ret = NoReturn
    /\ ret' = resolve_identity(args.result, args.source_filename)
    /\ UNCHANGED <<cfgvars, jobvars, rotvars, sc, provider_history, args>>

NextIdentity == ResolveIdentity

SpecIdentity == InitIdentity /\ [][NextIdentity]_vars

\* a token made of a letter prefix followed by IdDigits digits
LetterPrefixDigitRun(tok) ==
    TokenShape(tok).letters > 0 /\ TokenShape(tok).digits = IdDigits

Numeric(s) == s.kind \in {"number", "numstr"}

\* int(s) of a numeric raw score given in tenths
IntOf(s) == IF s.tenths >= 0 THEN s.tenths \div 10 ELSE -((-s.tenths) \div 10)

\* C19: on the strict path and on the fallback path, for a model output whose
\* object or embedded fragment carries the raw score s, the parse returns a
\* result; its score is max(lo, min(hi, int(s))) when s is numeric and null
\* when s is non-numeric or absent.
C19_ScoreClampedOrNull ==
    (/\ ret # NoReturn
     /\ args.raw.shape \in {"object", "embedded"}
     /\ args.raw.evaluation.kind # "nontext") =>
        LET s == args.raw.score
            lo == args.bounds[1]
            hi == args.bounds[2]
        IN  /\ ret.raised = "none"
            /\ Numeric(s) =>
                  /\ ret.score = SomeScore(Clamp(lo, hi, IntOf(s)))
                  /\ lo <= ret.score.v /\ ret.score.v <= hi
            /\ ~Numeric(s) => ret.score = NullScore

\* C20: when the strict parse of the model output fails, the returned result
\* has error = false only with a recovered score, and a result with
\* error = true has the fixed failure message as evaluation and the sentinel
\* as student id and as student name.
C20_FallbackErrorIsDefault ==
    (ret # NoReturn /\ args.raw.shape \in {"embedded", "broken", "plain"}) =>
        /\ ret.raised = "none"
        /\ ~ret.error => ret.score # NullScore
        /\ ret.error =>
              /\ ret.evaluation = FAIL_MESSAGE
              /\ ret.nim = NOT_FOUND
              /\ ret.student_name = NOT_FOUND

\* C21: with enable_evaluation false, every result the parse returns with
\* error = false has the empty evaluation, on the strict path and on the
\* fallback path.
C21_DisabledEvaluationEmpty ==
    (/\ ret # NoReturn
     /\ ~args.enable_evaluation
     /\ ret.raised = "none"
     /\ ~ret.error) => ret.evaluation = <<>>

(***************************************************************************)
(* DoclingService.parse_document_with_retry: the extraction of one file.   *)
(* args holds file_path and max_retries, sc the locals of the call and the *)
(* outcome of every attempt made, ret the returned value.                  *)
(***************************************************************************)
\* texts _parse_document_internal returns
ExtractedTexts == {"", " ", "Isi laporan"}

\* exceptions _parse_document_internal raises
ExtractErrors == {"ConversionError", "MemoryError"}

Failed == "failed"

\* a wrapper that also sleeps after the last attempt
BackoffAlways(attempt, retries) == TRUE

\* if attempt < max_retries - 1
BackoffDue(attempt, retries) == attempt < retries - 1

NewExtract == [pc |-> "loop", attempt |-> 0, outcomes |-> <<>>, waits |-> <<>>,
               last_error |-> None]

InitExtract ==
    /\ llm_config = [llm_provider |-> "gemini", openai_api_key |-> None,
                     gemini_api_keys |-> "[g-db]"]
    /\ app_config = [LLM_PROVIDER |-> "gemini", OPENAI_API_KEY |-> None,
                     GEMINI_API_KEYS |-> <<>>, MAX_WORKERS |-> 1]
    /\ InitJobVars
    /\ InitRotIdle
    /\ provider_history = "none"
    /\ args \in [file_path : Names, max_retries : 0..(MaxRetries + 1)]
    /\ sc = NewExtract
    /\ ret = NoReturn

ExtractFrame == UNCHANGED <<cfgvars, jobvars, rotvars, provider_history, args>>

\* result = self._parse_document_internal(file_path); return result
ExtractSucceeds(text) ==
    /\ sc.pc = "loop"
    /\ AttemptsLeft(sc.attempt, args.max_retries)
    /\ sc' = [sc EXCEPT !.pc = "done", !.outcomes = Append(@, text)]
    /\ ret' = [text |-> text]
    /\ ExtractFrame

\* except Exception as e: last_error = e; self._cleanup_memory()
ExtractFails(e) ==
    /\ sc.pc = "loop"
    /\ AttemptsLeft(sc.attempt, args.max_retries)
    /\ sc' = [sc EXCEPT !.pc = "handler", !.outcomes = Append(@, Failed),
                        !.last_error = e]
    /\ UNCHANGED ret
    /\ ExtractFrame

\* the backoff sleep of the handler and the step to the next attempt
ExtractBackoff ==
    /\ sc.pc = "handler"
    /\ sc' = [sc EXCEPT !.pc = "loop",
                        !.attempt = @ + 1,
                        !.waits = IF BackoffDue(sc.attempt, args.max_retries)
                                  THEN Append(@, Pow2(sc.attempt)) ELSE @]
    /\ UNCHANGED ret
    /\ ExtractFrame

\* the loop is over: return None
ExtractGivesUp ==
    /\ sc.pc = "loop"
    /\ ~AttemptsLeft(sc.attempt, args.max_retries)
    /\ sc' = [sc EXCEPT !.pc = "done"]
    /\ ret' = [text |-> None]
    /\ ExtractFrame

NextExtract ==
    \/ \E text \in ExtractedTexts : ExtractSucceeds(text)
    \/ \E e \in ExtractErrors : ExtractFails(e)
    \/ ExtractBackoff
    \/ ExtractGivesUp

SpecExtract == InitExtract /\ [][NextExtract]_vars

\* C22: a call makes at most max_retries attempts; the waits made so far are
\* 2^0, 2^1, ... seconds, one between two consecutive attempts and none after
\* the last one; a returned text is the text of the first attempt that did
\* not fail, and when all max_retries attempts failed the call returns null.
C22_BoundedAttemptsBackoffNull ==
    LET n == Len(sc.outcomes) IN
    /\ n <= args.max_retries
    /\ \A i \in 1..Len(sc.waits) : sc.waits[i] = 2 ^ (i - 1)
    /\ sc.pc = "loop" =>
          Len(sc.waits) = IF n > 0 /\ n = args.max_retries THEN n - 1 ELSE n
    /\ sc.pc = "handler" => Len(sc.waits) = n - 1
    /\ sc.pc = "done" =>
          /\ Len(sc.waits) = IF n = 0 THEN 0 ELSE n - 1
          /\ \A i \in 1..(n - 1) : sc.outcomes[i] = Failed
          /\ ret.text # None => ret.text = sc.outcomes[n]
          /\ ret.text = None =>
                /\ n = args.max_retries
                /\ \A i \in 1..n : sc.outcomes[i] = Failed

C22_Witness ==
    /\ sc.pc = "done"
    /\ args.max_retries = MaxRetries + 1
    /\ Len(sc.outcomes) = args.max_retries
    /\ Len(sc.waits) = MaxRetries
    /\ ret.text = None

(***************************************************************************)
(* ScoringService._process_single_file in bulk mode: the unit of work of   *)
(* one student.  In the unit specification args[i] is the content the      *)
(* extraction gave for task i and ret[i] the result the orchestrator       *)
(* stores for it.                                                          *)
(***************************************************************************)
\* what parse_pdf_with_retry returns for a student file
UnitContents == ExtractedTexts \cup {None}

\* what llm_service.score_report does: a result with a score, a result
\* without error and without score, an error result, or an exception
LlmOutcomes == {"scored", "unscored", "error", "raise"}

OCR_FAILED == "OCR Gagal"

OCR_OK == "OCR Berhasil"

\* len(text_signal) and word_count of a content without placeholders
TextSignal(content) ==
    IF content = "Isi laporan" THEN [signal |-> 10, words |-> 2]
    ELSE [signal |-> 0, words |-> 0]

\* ScoringService._assess_docling_ocr_status
assess_docling_ocr_status(content) ==
    IF ~Truthy(content) \/ Strip(content) = "" THEN OCR_FAILED
    ELSE IF TextSignal(content).signal < 10 /\ TextSignal(content).words < 3
    THEN OCR_FAILED
    ELSE OCR_OK

\* a guard that also stops on content that is empty after stripping
ContentMissingStripped(content) == ~Truthy(content) \/ Strip(content) = ""

\* if not student_content
ContentMissing(content) == ~Truthy(content)

\* the result of _process_single_file; kind is the outcome of the unit
process_single_file(content, llm, lo, hi) ==
    IF ContentMissing(content)
    THEN [kind |-> "error", ocr |-> OCR_FAILED, score |-> NullScore, error |-> TRUE]
    ELSE IF llm = "raise"
    THEN [kind |-> "raise", ocr |-> "none", score |-> NullScore, error |-> TRUE]
    ELSE [kind |-> IF llm = "error" THEN "error" ELSE "ok",
          ocr |-> assess_docling_ocr_status(content),
          score |-> IF llm = "scored" THEN SomeScore(Clamp(lo, hi, 85)) ELSE NullScore,
          error |-> llm = "error"]

\* the job's score_min and score_max
JobBounds == <<40, 100>>

\* a unit of work ends: WorkerFinish with the content and the result kept
UnitFinish(i, content, llm) ==
    /\ i \in Running
    /\ LET res == process_single_file(content, llm, JobBounds[1], JobBounds[2]) IN
       /\ futures' = [futures EXCEPT ![i] = "done"]
       /\ outcome' = [outcome EXCEPT ![i] = res.kind]
       /\ args' = [j \in DOMAIN args \cup {i} |-> IF j = i THEN content ELSE args[j]]
       /\ ret' = [j \in DOMAIN ret \cup {i} |->
                    IF j = i THEN [ocr |-> res.ocr, score |-> res.score,
                                   error |-> res.error]
                    ELSE ret[j]]
    /\ UNCHANGED <<response, submitted_cfg, saved_files, job, job_results,
                   job_progress, pc, collected, cur, processed_count,
                   success_count, error_count, results, error_msg, persist_failed,
                   infra_failed>>
    /\ UNCHANGED <<cfgvars, rotvars, sc, provider_history>>

InitUnit ==
    /\ llm_config = [llm_provider |-> "gemini", openai_api_key |-> None,
                     gemini_api_keys |-> "[g-db]"]
    /\ app_config = [LLM_PROVIDER |-> "gemini", OPENAI_API_KEY |-> None,
                     GEMINI_API_KEYS |-> <<>>, MAX_WORKERS |-> 1]
    /\ InitJobVars
    /\ InitRotIdle
    /\ InitCallIdle

NextUnit ==
    \/ \E files \in FileLists(MaxStudents) : upload_files(files)
    \/ RunBegin
    \/ SubmitAll
    \/ \E i \in 1..MaxStudents : WorkerStart(i)
    \/ \E i \in 1..MaxStudents : \E content \in UnitContents :
          \E llm \in LlmOutcomes : UnitFinish(i, content, llm)
    \/ \E i \in 1..MaxStudents : CollectNext(i)
    \/ HandleResult
    \/ CommitCount
    \/ HandleException
    \/ CommitCountExc
    \/ ExecutorShutdown
    \/ GenerateReport
    \/ CommitCompleted
    \/ LogCompletion
    \/ HandleFatal

SpecUnit == InitUnit /\ [][NextUnit]_vars

\* content that is absent, empty, or empty after stripping
EmptyContent(content) == content = None \/ content = "" \/ Strip(content) = ""

\* C23: a student whose extracted content is empty gets the OCR label
\* "extraction failed" and a result with the error flag and no score; when a
\* one-student job of such a student is completed, without a failure of the
\* database, its StudentTask has status error and the job's summary counts
\* 0 successes of 1.
C23_EmptyContentIsError ==
    \A i \in DOMAIN ret :
        EmptyContent(args[i]) =>
            /\ ret[i].ocr = OCR_FAILED
            /\ ret[i].error
            /\ ret[i].score = NullScore
            /\ (job.status = "completed" /\ ~infra_failed /\ Len(saved_files) = 1) =>
                  /\ job_results[1].status = "error"
                  /\ job.status_message.success = 0
                  /\ job.status_message.total = 1

(***************************************************************************)
(* ScoringService._generate_csv: the rows of the report.                   *)
(***************************************************************************)
\* position of a filename in the order of Python strings
NameRank(filename) == IF filename = "a.pdf" THEN 1 ELSE 2

\* sorted(seq, key=Key): ascending by key; elements with equal keys keep
\* the order they have in seq
StableSort(seq, Key(_)) ==
    LET n == Len(seq)
        p == CHOOSE q \in [1..n -> 1..n] :
                \A i, j \in 1..n :
                    i < j => \/ Key(seq[q[i]]) < Key(seq[q[j]])
                             \/ Key(seq[q[i]]) = Key(seq[q[j]]) /\ q[i] < q[j]
    IN  [i \in 1..n |-> seq[p[i]]]

\* a sort key that tells every student's result from the others
FilenameThenTask(result) == NameRank(result.filename) * (MaxStudents + 2) + result.task

\* key=lambda x: x.get('filename', '')
FilenameKey(result) == NameRank(result.filename)

\* sorted_results of _generate_csv: one row per entry of results
generate_csv(rs) == StableSort(rs, FilenameKey)

\* the submission position of the unit a result belongs to
TaskKey(result) == result.task

\* C24: the rows of the report of a completed job (no failure of the
\* database) are one per student and are the rows, in the same order, that
\* the report has when the same results arrive in submission order: the
\* completion order of the units does not show in the report.
C24_ReportOrderIndependent ==
    (job.status = "completed" /\ ~infra_failed) =>
        /\ Len(generate_csv(results)) = total_files
        /\ generate_csv(results) = generate_csv(StableSort(results, TaskKey))

(***************************************************************************)
(* dashboard.get_progress: the progress stream of a job.  sc holds the     *)
(* state of the stream: whether it is open, the number of events sent and  *)
(* the last event.  The snapshot cache is a dictionary of the process and  *)
(* is empty after a restart of the process.                                *)
(***************************************************************************)
\* most events one stream sends in the model
MaxEvents == 2

NoEvent == [source |-> "none", status |-> "none", message |-> NoMessage,
            current |-> 0, total |-> 0]

NewStream == [stream |-> "closed", sent |-> 0, last |-> NoEvent]

\* an endpoint that always answers from the Job record
progress_from_db(cache, j) ==
    [source |-> "db", status |-> j.status, message |-> j.status_message,
     current |-> j.processed_files, total |-> j.total_files]

\* if job_id in job_progress: the snapshot, else the Job record (or the
\* 'error' event when the record is gone)
progress_event(cache, j) ==
    IF cache.has
    THEN [source |-> "cache", status |-> cache.status, message |-> NoMessage,
          current |-> cache.current, total |-> cache.total]
    ELSE IF j # NoJob
    THEN [source |-> "db", status |-> j.status, message |-> j.status_message,
          current |-> j.processed_files, total |-> j.total_files]
    ELSE [NoEvent EXCEPT !.source = "db", !.status = "error"]

\* if progress.get('status') in ['completed', 'failed', 'error']: break
StreamEnds(status) == status \in {"completed", "failed", "error"}

StreamFrame == UNCHANGED <<cfgvars, rotvars, provider_history, args, ret>>

\* GET /api/progress/<job_id>: 404 without an owned job, else the stream opens
OpenStream ==
    /\ sc.stream = "closed"
    /\ sc' = [sc EXCEPT !.stream = IF job = NoJob THEN "rejected" ELSE "open"]
    /\ UNCHANGED jobvars
    /\ StreamFrame

\* one round of generate(): build the event, send it, break or sleep
SendEvent ==
    /\ sc.stream = "open"
    /\ sc.sent < MaxEvents
    /\ LET event == progress_event(job_progress, job) IN
       sc' = [stream |-> IF StreamEnds(event.status) THEN "ended" ELSE "open",
              sent |-> sc.sent + 1,
              last |-> event]
    /\ UNCHANGED jobvars
    /\ StreamFrame

\* the process restarts: the cache is empty, the scoring thread and the
\* stream are gone, the database keeps the Job record
ProcessRestart ==
    /\ job # NoJob
    /\ job_progress.has
    /\ job_progress' = NoProgress
    /\ pc' = "done"
    /\ sc' = NewStream
    /\ UNCHANGED <<response, submitted_cfg, saved_files, job, job_results, futures,
                   outcome, collected, cur, processed_count, success_count,
                   error_count, results, error_msg, persist_failed, infra_failed>>
    /\ StreamFrame

InitProgress ==
    /\ llm_config = [llm_provider |-> "gemini", openai_api_key |-> None,
                     gemini_api_keys |-> "[g-db]"]
    /\ app_config = [LLM_PROVIDER |-> "gemini", OPENAI_API_KEY |-> None,
                     GEMINI_API_KEYS |-> <<>>, MAX_WORKERS |-> 1]
    /\ InitJobVars
    /\ InitRotIdle
    /\ sc = NewStream
    /\ provider_history = "none"
    /\ args = NoCallArgs
    /\ ret = NoReturn

\* the uploaded files of the job whose progress is streamed
StreamFiles == <<"a.pdf", "b.pdf">>

NextProgress ==
    \/ OpenStream
    \/ SendEvent
    \/ ProcessRestart
    \/ upload_files(StreamFiles)
    \/ RunBegin
    \/ SubmitAll
    \/ \E i \in 1..MaxStudents : WorkerStart(i)
    \/ \E i \in 1..MaxStudents : \E o \in UnitOutcomes : WorkerFinish(i, o)
    \/ \E i \in 1..MaxStudents : CollectNext(i)
    \/ HandleResult
    \/ CommitCount
    \/ HandleException
    \/ CommitCountExc
    \/ ExecutorShutdown
    \/ GenerateReport
    \/ CommitCompleted
    \/ LogCompletion
    \/ HandleFatal

SpecProgress == InitProgress /\ [][NextProgress]_vars

\* an event was sent in this step
EventSent == sc'.sent = sc.sent + 1

C26_SnapshotAtMostDurable ==
    job_progress.has => job_progress.current <= job.processed_files

\* C26 as the code has it: the snapshot is refreshed with the new count
\* before the StudentTask and the durable count are written, so a step that
\* writes processed_files writes a value the snapshot already shows, and
\* while the snapshot is not the one of a failed job the durable
\* processed_files is at most the snapshot's current.
C26_DurableAtMostSnapshot ==
    /\ []((job_progress.has /\ job_progress.status # "failed") =>
            job.processed_files <= job_progress.current)
    /\ [][job'.processed_files # job.processed_files =>
            /\ job'.processed_files = job_progress.current
            /\ job_progress' = job_progress]_vars

C26_Witness ==
    /\ pc = "commit_count"
    /\ ~infra_failed
    /\ job_progress.current = job.processed_files + 1
    /\ job_results[1].status = "completed"

(***************************************************************************)
(* Termination of a scoring run.  A provider request is a blocking call of *)
(* the worker thread: generate_content and chat.completions.create are     *)
(* called without a timeout argument.  In the liveness specification sc is *)
(* the set of units whose provider request never answers.                  *)
(***************************************************************************)
\* the provider stops answering the request of a running unit
ProviderHangs(i) ==
    /\ i \in Running
    /\ i \notin sc
    /\ sc' = sc \cup {i}
    /\ UNCHANGED <<cfgvars, jobvars, rotvars, provider_history, args, ret>>

\* a unit whose requests were answered ends
UnitAnswers(i, o) == i \notin sc /\ WorkerFinish(i, o)

InitLive ==
    /\ llm_config = [llm_provider |-> "gemini", openai_api_key |-> None,
                     gemini_api_keys |-> "[g-db]"]
    /\ app_config \in [LLM_PROVIDER : {"gemini"}, OPENAI_API_KEY : {None},
                       GEMINI_API_KEYS : {<<>>}, MAX_WORKERS : 1..MaxWorkers]
    /\ InitJobVars
    /\ InitRotIdle
    /\ sc = {}
    /\ provider_history = "none"
    /\ args = NoCallArgs
    /\ ret = NoReturn

\* the steps of the threads of the program
ProgramStep ==
    \/ \E files \in FileLists(MaxStudents) : upload_files(files)
    \/ RunBegin
    \/ SubmitAll
    \/ \E i \in 1..MaxStudents : WorkerStart(i)
    \/ \E i \in 1..MaxStudents : \E o \in UnitOutcomes : UnitAnswers(i, o)
    \/ \E i \in 1..MaxStudents : CollectNext(i)
    \/ HandleResult
    \/ CommitCount
    \/ HandleException
    \/ CommitCountExc
    \/ ExecutorShutdown
    \/ GenerateReport
    \/ CommitCompleted
    \/ LogCompletion
    \/ HandleFatal

NextLive ==
    \/ ProgramStep
    \/ \E i \in 1..MaxStudents : ProviderHangs(i)

\* every thread of the program keeps running; the provider owes nothing
SpecLive == InitLive /\ [][NextLive]_vars /\ WF_vars(ProgramStep)

\* C27: every job that enters processing eventually reaches completed or
\* failed (a failed database call aside), also when a provider request never
\* answers.
C27_ProcessingEnds ==
    (job.status = "processing") ~>
        (job.status \in {"completed", "failed"} \/ infra_failed)

(***************************************************************************)
(* The StudentTask a parsed response is stored as.                         *)
(***************************************************************************)
\* C28 as stated: a result that is stored with status completed has a
\* non-null score within the bounds of the job.
C28_CompletedHasScore ==
    (/\ ret # NoReturn
     /\ ret.raised = "none"
     /\ StoredStatus(ret) = "completed") =>
        /\ ret.score # NullScore
        /\ args.bounds[1] <= ret.score.v
        /\ ret.score.v <= args.bounds[2]

\* C28 as the code has it: a result that is stored with status completed
\* has a score within the bounds of the job when the response carried a
\* numeric score, and the null score when it carried none.
C28_CompletedScoreNullOrInBounds ==
    (/\ ret # NoReturn
     /\ ret.raised = "none"
     /\ StoredStatus(ret) = "completed") =>
        /\ Numeric(args.raw.score) =>
              /\ ret.score # NullScore
              /\ args.bounds[1] <= ret.score.v
              /\ ret.score.v <= args.bounds[2]
        /\ ~Numeric(args.raw.score) => ret.score = NullScore

C28_Witness ==
    /\ ret # NoReturn
    /\ ret.raised = "none"
    /\ StoredStatus(ret) = "completed"
    /\ args.raw.shape = "object"
    /\ args.raw.score.kind = "word"
    /\ ret.score = NullScore

\* ---------------------------------------------------------------------------
\* The rotation under a change of the configured Gemini key list
\* ---------------------------------------------------------------------------

\* the key lists an administrator stores; the settings form keeps every
\* non-blank line, in the order typed
KeyLists == {<<"g1", "g2">>, <<"g2", "g1">>, <<"g3">>}

\* a worker thread that is not inside _score_with_gemini
NoScoreCall == [keys |-> <<>>, api_key |-> None]

\* the flags of the rotation with the credential each one was raised for
FlagsKept(flags, flagged) == {p \in flags : p[1] \in flagged}

\* the settings form stores a new key list (args is the stored list)
SaveGeminiKeys(ks) ==
    /\ ks # args
    /\ args' = ks
    /\ UNCHANGED <<sc, ret, provider_history>>
    /\ UNCHANGED <<cfgvars, jobvars, rotvars>>

\* score_report resolves the active configuration once per call:
\* keys = cfg['gemini_keys'] stays the same for every attempt of the call
ReadConfig(t) ==
    /\ tpc[t] = "lock_next"
    /\ sc[t] = NoScoreCall
    /\ sc' = [sc EXCEPT ![t] = [keys |-> args, api_key |-> None]]
    /\ UNCHANGED <<args, ret, provider_history>>
    /\ UNCHANGED <<cfgvars, jobvars, rotvars>>

\* a thread enters a "with self._lock" block; the block of
\* _get_next_gemini_key is entered from inside a scoring call only
AcquireInCall(t) ==
    /\ tpc[t] = "lock_next" => sc[t] # NoScoreCall
    /\ Acquire(t)
    /\ UNCHANGED <<cfgvars, jobvars, callvars>>

\* the whole body of _get_next_gemini_key(keys): a key list that differs from
\* self._gemini_keys (ret) rebuilds the rotation and clears the flags, then
\* the loop runs on the rebuilt rotation
get_next_gemini_key_of(t) ==
    /\ tpc[t] = "in_next"
    /\ LET changed == sc[t].keys # ret
           keys == IF changed THEN sc[t].keys ELSE ret
           r == KeyLoop(Len(keys),
                        IF changed THEN 0 ELSE key_cycle,
                        IF changed THEN {} ELSE rate_limited_keys, 0)
       IN  /\ ret' = keys
           /\ gemini_keys' = Len(keys)
           /\ key_cycle' = r.pos
           /\ rate_limited_keys' = r.flagged
           /\ provider_history' =
                  IF changed THEN {} ELSE FlagsKept(provider_history, r.flagged)
           /\ marked' = IF changed THEN {} ELSE marked
           /\ key_idx' = [key_idx EXCEPT ![t] = r.idx]
           /\ sc' = [sc EXCEPT ![t].api_key = keys[r.idx + 1]]
           /\ last_call' = [by |-> t, flagged_before |-> rate_limited_keys,
                            skips |-> r.skips, returned |-> r.returned]
           /\ handed' = IF rate_limited_keys = {} /\ ~changed
                        THEN LastN(Append(handed, r.idx), Len(keys))
                        ELSE <<>>
    /\ tpc' = [tpc EXCEPT ![t] = "got_key"]
    /\ UNCHANGED <<lock, args>>
    /\ UNCHANGED <<cfgvars, jobvars>>

\* the rate-limit branch of the except block: the index obtained at the top
\* of the attempt is flagged, whatever the rotation holds by now
MarkRateLimitedInCall(t) ==
    /\ MarkRateLimited(t)
    /\ provider_history' =
           {p \in provider_history : p[1] # key_idx[t]}
               \cup {<<key_idx[t], sc[t].api_key>>}
    /\ UNCHANGED <<sc, args, ret>>
    /\ UNCHANGED <<cfgvars, jobvars>>

\* the success path: the flag of the index is discarded and the call returns
ClearRateLimitInCall(t) ==
    /\ ClearRateLimit(t)
    /\ provider_history' = {p \in provider_history : p[1] # key_idx[t]}
    /\ sc' = [sc EXCEPT ![t] = NoScoreCall]
    /\ UNCHANGED <<args, ret>>
    /\ UNCHANGED <<cfgvars, jobvars>>

\* the attempts are used up: the call returns the error result
AttemptsExhausted(t) ==
    /\ tpc[t] = "lock_next"
    /\ sc[t] # NoScoreCall
    /\ sc' = [sc EXCEPT ![t] = NoScoreCall]
    /\ UNCHANGED <<args, ret, provider_history>>
    /\ UNCHANGED <<cfgvars, jobvars, rotvars>>

InitReload ==
    /\ llm_config = [llm_provider |-> "gemini", openai_api_key |-> None,
                     gemini_api_keys |-> "[g-db]"]
    /\ app_config = [LLM_PROVIDER |-> "gemini", OPENAI_API_KEY |-> None,
                     GEMINI_API_KEYS |-> <<>>, MAX_WORKERS |-> MaxThreads]
    /\ InitJobVars
    /\ args \in KeyLists
    /\ ret = args
    /\ sc = [t \in Threads |-> NoScoreCall]
    /\ provider_history = {}
    /\ gemini_keys = Len(args)
    /\ key_cycle = 0
    /\ rate_limited_keys = {}
    /\ lock = 0
    /\ tpc = [t \in Threads |-> "lock_next"]
    /\ key_idx = [t \in Threads |-> 0]
    /\ last_call = NoCall
    /\ handed = <<>>
    /\ marked = {}

NextReload ==
    \/ \E ks \in KeyLists : SaveGeminiKeys(ks)
    \/ \E t \in Threads : ReadConfig(t)
    \/ \E t \in Threads : AcquireInCall(t)
    \/ \E t \in Threads : get_next_gemini_key_of(t)
    \/ \E t \in Threads : ReturnKey(t) /\ UNCHANGED <<cfgvars, jobvars, callvars>>
    \/ \E t \in Threads, res \in RequestOutcomes :
           Request(t, res) /\ UNCHANGED <<cfgvars, jobvars, callvars>>
    \/ \E t \in Threads : MarkRateLimitedInCall(t)
    \/ \E t \in Threads : ClearRateLimitInCall(t)
    \/ \E t \in Threads : AttemptsExhausted(t)

SpecReload == InitReload /\ [][NextReload]_vars

C30_ParseNeverRaises ==
    ret # NoReturn => ret.raised = "none"

====
